---- MODULE Spec2Model ----
(***************************************************************************)
(* A model of src/version4/capacity.py, the disk usage monitor: one run of *)
(* the script from parse_arguments() to the process exit.                  *)
(*                                                                         *)
(* Representation.                                                         *)
(*  - A Python str that the code compares or takes a prefix of (a device   *)
(*    path, a mountpoint) is a sequence of character codes, so that        *)
(*    startswith() and the str ordering used by sorted() are computed.     *)
(*    A filesystem type is only tested for membership and emptiness and    *)
(*    is a TLA+ string.                                                    *)
(*  - usage.percent is a float with one decimal place (psutil rounds it);  *)
(*    it is held in tenths of a percent, and a comparison with an integer  *)
(*    threshold T is a comparison with 10 * T.                             *)
(*  - usage.total, usage.used and usage.free are byte counts; TLC integers *)
(*    have 32 bits, so a count is held in KiB (blocks of 1024 bytes) and   *)
(*    the division of the bytes by 1024^k is the division of the KiB by    *)
(*    1024^(k-1).  The float that round(x, 1) returns is held in tenths.   *)
(***************************************************************************)
EXTENDS Integers, Sequences, FiniteSets, TLC

VARIABLES
    argv,                \* sys.argv as argparse reads it (a record of the options)
    pc,                  \* the position of the run
    WARNING_THRESHOLD,   \* Config.WARNING_THRESHOLD
    CRITICAL_THRESHOLD,  \* Config.CRITICAL_THRESHOLD
    partitions,          \* collect_storage_info: psutil.disk_partitions(...)
    idx,                 \* collect_storage_info: position of the for loop
    rows,                \* collect_storage_info: the local list rows
    main_rows,           \* main: rows, the value collect_storage_info returned
    has_warning,         \* main: has_warning
    has_critical,        \* main: has_critical
    output,              \* what the run has printed on stdout
    stderr,              \* user-facing messages printed on stderr
    log,                 \* records the logger DiskUsageMonitor has emitted
    exc,                 \* the exception in flight ("none" when there is none)
    exitCode,            \* the status of the process (NoExit while it runs)
    enumCalls,           \* history: calls of psutil.disk_partitions
    queries              \* history: the calls of psutil.disk_usage: the position of
                         \* the loop and the outcome of the try block

vars == <<argv, pc, WARNING_THRESHOLD, CRITICAL_THRESHOLD, partitions, idx, rows,
          main_rows, has_warning, has_critical, output, stderr, log, exc,
          exitCode, enumCalls, queries>>

-----------------------------------------------------------------------------
(* Bounds of the model *)

\* the longest list psutil.disk_partitions returns
MaxMounts == 2

-----------------------------------------------------------------------------
(* Strings as sequences of character codes *)

\* "/dev/loop"
DevLoopPrefix == <<47, 100, 101, 118, 47, 108, 111, 111, 112>>

\* str.startswith
StartsWith(s, prefix) ==
    /\ Len(s) >= Len(prefix)
    /\ SubSeq(s, 1, Len(prefix)) = prefix

\* the ordering of Python's str: a < b
RECURSIVE StrLess(_, _)
StrLess(a, b) ==
    IF b = <<>> THEN FALSE
    ELSE IF a = <<>> THEN TRUE
    ELSE IF Head(a) # Head(b) THEN Head(a) < Head(b)
    ELSE StrLess(Tail(a), Tail(b))

-----------------------------------------------------------------------------
(* Configuration *)

\* Config.WARNING_THRESHOLD as the class body sets it
DEFAULT_WARNING_THRESHOLD == 85

\* Config.CRITICAL_THRESHOLD as the class body sets it
DEFAULT_CRITICAL_THRESHOLD == 95

\* Config.PSEUDO_FS_TYPES
PSEUDO_FS_TYPES ==
    {"proc", "sysfs", "tmpfs", "devtmpfs", "devpts", "cgroup", "cgroup2",
     "pstore", "bpf", "securityfs", "mqueue", "hugetlbfs", "tracefs"}

\* the choices of --sort
SortKeys == {"mount", "total", "used", "free", "percent"}

\* the choices of --unit
UnitNames == {"KB", "MB", "GB", "TB"}

\* the exit status of a process that has not exited
NoExit == 0 - 1

-----------------------------------------------------------------------------
(* The command lines of the model *)

\* the namespace argparse builds when no option is given
DefaultArgs ==
    [all |-> FALSE, physical |-> FALSE, verbose |-> FALSE, json |-> FALSE,
     raw_json |-> FALSE,
     warning_threshold |-> DEFAULT_WARNING_THRESHOLD,
     critical_threshold |-> DEFAULT_CRITICAL_THRESHOLD,
     sort |-> "percent", no_timestamp |-> FALSE, unit |-> "GB"]

\* --warning-threshold W --critical-threshold C, in and out of 0..100, in
\* and out of order
ThresholdArgs ==
    {[DefaultArgs EXCEPT !.warning_threshold = t[1], !.critical_threshold = t[2],
                         !.json = j] :
        t \in {<<85, 95>>, <<85, 85>>, <<50, 85>>, <<0, 100>>, <<95, 85>>,
               <<-1, 95>>, <<85, 101>>, <<101, 101>>},
        j \in BOOLEAN}

\* --json, --raw-json, both, neither; --physical; --all; --no-timestamp; -v
FlagArgs ==
    {[DefaultArgs EXCEPT !.json = j, !.raw_json = r, !.physical = p] :
        j \in BOOLEAN, r \in BOOLEAN, p \in BOOLEAN}
    \cup {[DefaultArgs EXCEPT !.all = TRUE, !.verbose = TRUE],
          [DefaultArgs EXCEPT !.no_timestamp = TRUE, !.raw_json = TRUE]}

\* --sort KEY
SortArgs == {[DefaultArgs EXCEPT !.sort = k, !.json = TRUE] : k \in SortKeys}

\* every combination of --all, --physical and --sort KEY
FilterArgs ==
    {[DefaultArgs EXCEPT !.all = a, !.physical = p, !.sort = k] :
        a \in BOOLEAN, p \in BOOLEAN, k \in SortKeys}

\* --unit UNIT
UnitArgs == {[DefaultArgs EXCEPT !.unit = u, !.json = TRUE] : u \in UnitNames}

-----------------------------------------------------------------------------
(* The machine the run looks at: what psutil can return *)

\* "/dev/sda"
DevSda == <<47, 100, 101, 118, 47, 115, 100, 97>>
\* "/dev/sdb"
DevSdb == <<47, 100, 101, 118, 47, 115, 100, 98>>
\* "/dev/loop0"
DevLoop0 == <<47, 100, 101, 118, 47, 108, 111, 111, 112, 48>>
\* "tmpfs"
DevTmpfs == <<116, 109, 112, 102, 115>>
\* "/"
MntRoot == <<47>>
\* "/a"
MntA == <<47, 97>>
\* "/b"
MntB == <<47, 98>>

\* the entries psutil.disk_partitions may list (sdiskpart: device,
\* mountpoint, fstype): a disk, a tmpfs, a loop device, an entry without
\* mountpoint, and a disk of unreported type mounted over /a
Partitions ==
    {[device |-> DevSda, mountpoint |-> MntRoot, fstype |-> "ext4"],
     [device |-> DevTmpfs, mountpoint |-> MntB, fstype |-> "tmpfs"],
     [device |-> DevLoop0, mountpoint |-> MntA, fstype |-> "squashfs"],
     [device |-> DevSdb, mountpoint |-> <<>>, fstype |-> "ext4"],
     [device |-> DevSdb, mountpoint |-> MntA, fstype |-> ""]}

\* the lists psutil.disk_partitions may return
MountLists == UNION {[1..n -> Partitions] : n \in 0..MaxMounts}

\* a usage psutil.disk_usage returns whose percent float() converts:
\* total, used, free in KiB, percent in tenths
Usage(t, u, f, p) ==
    [kind |-> "ok", total |-> t, used |-> u, free |-> f, percent |-> p]

\* an outcome of the try block that is an exception of class k
Raises(k) == [kind |-> k, total |-> 0, used |-> 0, free |-> 0, percent |-> 0]

\* the outcomes of psutil.disk_usage(part.mountpoint) followed by
\* float(usage.percent):
\*   100 GiB half full; 1 GiB with used 0.25 GiB and free 0.75 GiB (ties of
\*   the rounding) at 84.9 %; 1 GiB and 24 KiB at the warning default;
\*   2 MiB at 94.9 %; 1 GiB at the critical default;
\*   PermissionError and another OSError raised by disk_usage; ValueError
\*   raised by float() of a str that is no number; TypeError raised by
\*   float() of a value that is neither a str nor a number (None).
UsageOutcomes ==
    {Usage(104857600, 52428800, 52428800, 500),
     Usage(1048576, 262144, 786432, 849),
     Usage(1048600, 891310, 157290, 850),
     Usage(2048, 1944, 104, 949),
     Usage(1048576, 996148, 52428, 950),
     Raises("PermissionError"), Raises("OSError"), Raises("ValueError"),
     Raises("TypeError")}

\* the outcomes of the try block of the loop: those of the two calls, and
\* KeyboardInterrupt raised while the block runs
TryOutcomes == UsageOutcomes \cup {Raises("KeyboardInterrupt")}

-----------------------------------------------------------------------------
(* Utility functions *)

\* round(n / d, 1) in tenths: the nearest tenth, a tie going to the even one
RoundTenths(n, d) ==
    LET q == (n * 10) \div d
        r == (n * 10) % d
    IN  IF r > d - r THEN q + 1
        ELSE IF r < d - r THEN q
        ELSE IF q % 2 = 0 THEN q ELSE q + 1

\* the divisor table of bytes_to_human, in KiB; a unit it does not hold
\* gets the divisor of GB
UnitDivisor(unit) ==
    CASE unit = "KB" -> 1
      [] unit = "MB" -> 1024
      [] unit = "GB" -> 1024 * 1024
      [] unit = "TB" -> 1024 * 1024 * 1024
      [] OTHER -> 1024 * 1024

\* bytes_to_human(bytes_val, unit)
bytes_to_human(bytes_val, unit) == RoundTenths(bytes_val, UnitDivisor(unit))

\* bytes_to_human(bytes_val): the call collect_storage_info makes, which
\* passes no unit, so that the parameter takes its default
bytes_to_human_default(bytes_val) == bytes_to_human(bytes_val, "GB")

\* get_color_for_usage(percent)
get_color_for_usage(percent) ==
    IF percent >= 10 * CRITICAL_THRESHOLD THEN "bold red"
    ELSE IF percent >= 10 * WARNING_THRESHOLD THEN "yellow"
    ELSE "white"

\* StatusOf with > where the code has >=
StatusOf_strict(percent) ==
    IF percent > 10 * CRITICAL_THRESHOLD THEN "CRITICAL"
    ELSE IF percent > 10 * WARNING_THRESHOLD THEN "WARNING"
    ELSE "OK"

\* StatusOf with the percent required to be at most 100
StatusOf_in_range(percent) ==
    IF percent >= 10 * CRITICAL_THRESHOLD /\ percent <= 1000 THEN "CRITICAL"
    ELSE IF percent >= 10 * WARNING_THRESHOLD /\ percent <= 1000 THEN "WARNING"
    ELSE "OK"

\* the conditional expression of generate_json_output that gives "status"
StatusOf(percent) ==
    IF percent >= 10 * CRITICAL_THRESHOLD THEN "CRITICAL"
    ELSE IF percent >= 10 * WARNING_THRESHOLD THEN "WARNING"
    ELSE "OK"

\* check_thresholds comparing with the thresholds the class Config is
\* defined with
check_thresholds_defaults(rs) ==
    <<\E i \in 1..Len(rs) : rs[i].percent >= 10 * DEFAULT_WARNING_THRESHOLD,
      \E i \in 1..Len(rs) : rs[i].percent >= 10 * DEFAULT_CRITICAL_THRESHOLD>>

\* check_thresholds(rows): <<has_warning, has_critical>>
check_thresholds(rs) ==
    <<\E i \in 1..Len(rs) : rs[i].percent >= 10 * WARNING_THRESHOLD,
      \E i \in 1..Len(rs) : rs[i].percent >= 10 * CRITICAL_THRESHOLD>>

-----------------------------------------------------------------------------
(* sorted(rows, key=..., reverse=...) *)

\* x[sort_indices[sort_key]]
SortField(row, sort_key) ==
    CASE sort_key = "mount" -> row.mountpoint
      [] sort_key = "total" -> row.total
      [] sort_key = "used" -> row.used
      [] sort_key = "free" -> row.free
      [] sort_key = "percent" -> row.percent

\* key(a) < key(b): str ordering for the mountpoint, float ordering otherwise
KeyLess(a, b, sort_key) ==
    IF sort_key = "mount" THEN StrLess(a.mountpoint, b.mountpoint)
    ELSE SortField(a, sort_key) < SortField(b, sort_key)

\* list.reverse
RECURSIVE Reverse(_)
Reverse(s) == IF s = <<>> THEN <<>> ELSE Append(Reverse(Tail(s)), Head(s))

\* the place of x in the sorted list s: behind every element that is not
\* greater than x
RECURSIVE InsertStable(_, _, _)
InsertStable(x, s, sort_key) ==
    IF s = <<>> THEN <<x>>
    ELSE IF KeyLess(x, Head(s), sort_key) THEN <<x>> \o s
    ELSE <<Head(s)>> \o InsertStable(x, Tail(s), sort_key)

\* StableSort keeping one row for each value of the key
RECURSIVE StableSort_one_per_key(_, _)
StableSort_one_per_key(s, sort_key) ==
    IF s = <<>> THEN <<>>
    ELSE LET rest == StableSort_one_per_key(SubSeq(s, 1, Len(s) - 1), sort_key)
             last == s[Len(s)]
         IN  IF \E i \in 1..Len(rest) :
                    SortField(rest[i], sort_key) = SortField(last, sort_key)
             THEN rest
             ELSE InsertStable(last, rest, sort_key)

\* the stable ascending sort of list.sort
RECURSIVE StableSort(_, _)
StableSort(s, sort_key) ==
    IF s = <<>> THEN <<>>
    ELSE InsertStable(s[Len(s)], StableSort(SubSeq(s, 1, Len(s) - 1), sort_key),
                      sort_key)

\* Sorted with the descending order obtained by reversing an ascending
\* sort, which turns the rows of equal key around
Sorted_reverse_after(s, sort_key, reverse) ==
    IF reverse THEN Reverse(StableSort(s, sort_key))
    ELSE StableSort(s, sort_key)

\* sorted(s, key, reverse): with reverse, list.sort reverses the list,
\* sorts it ascending and reverses the result
Sorted(s, sort_key, reverse) ==
    IF reverse THEN Reverse(StableSort(Reverse(s), sort_key))
    ELSE StableSort(s, sort_key)

\* SortRows with reverse set for the mountpoint instead of the other keys
SortRows_wrong_direction(rs, sort_key) == Sorted(rs, sort_key, sort_key = "mount")

\* the return statement of collect_storage_info
SortRows(rs, sort_key) == Sorted(rs, sort_key, sort_key # "mount")

-----------------------------------------------------------------------------
(* Output functions *)

\* the list generate_json_output builds from rows
JsonRows(rs) ==
    [i \in 1..Len(rs) |->
        [device |-> rs[i].device, mountpoint |-> rs[i].mountpoint,
         total_gb |-> rs[i].total, used_gb |-> rs[i].used,
         free_gb |-> rs[i].free, usage_percent |-> rs[i].percent,
         filesystem |-> rs[i].fs_type, status |-> StatusOf(rs[i].percent)]]

\* the rows print_storage_table adds to the table
TableRows(rs) ==
    [i \in 1..Len(rs) |->
        [device |-> rs[i].device, mount |-> rs[i].mountpoint,
         total |-> rs[i].total, used |-> rs[i].used, free |-> rs[i].free,
         percent |-> rs[i].percent,
         color |-> get_color_for_usage(rs[i].percent),
         fs_type |-> rs[i].fs_type]]

\* stdout before anything is printed
NoOutput == [format |-> "none", rows |-> <<>>, timestamp |-> FALSE]

\* a record of the logger
LogRecord(level, event, about) == [level |-> level, event |-> event, about |-> about]

-----------------------------------------------------------------------------
(* The run *)

\* the process at its start, with a command line of the set args
Start(args) ==
    /\ argv \in args
    /\ pc = "start"
    /\ WARNING_THRESHOLD = DEFAULT_WARNING_THRESHOLD
    /\ CRITICAL_THRESHOLD = DEFAULT_CRITICAL_THRESHOLD
    /\ partitions = <<>>
    /\ idx = 0
    /\ rows = <<>>
    /\ main_rows = <<>>
    /\ has_warning = FALSE
    /\ has_critical = FALSE
    /\ output = NoOutput
    /\ stderr = <<>>
    /\ log = <<>>
    /\ exc = "none"
    /\ exitCode = NoExit
    /\ enumCalls = 0
    /\ queries = <<>>

\* ArgumentError without the check of the order of the thresholds
ArgumentError_no_order(args) ==
    IF ~(0 <= args.warning_threshold /\ args.warning_threshold <= 100)
        THEN "--warning-threshold must be 0-100"
    ELSE IF ~(0 <= args.critical_threshold /\ args.critical_threshold <= 100)
        THEN "--critical-threshold must be 0-100"
    ELSE IF args.json /\ args.raw_json
        THEN "Cannot use both --json and --raw-json"
    ELSE ""

\* the message of the first check of parse_arguments that fails, "" when
\* all of them pass
ArgumentError(args) ==
    IF ~(0 <= args.warning_threshold /\ args.warning_threshold <= 100)
        THEN "--warning-threshold must be 0-100"
    ELSE IF ~(0 <= args.critical_threshold /\ args.critical_threshold <= 100)
        THEN "--critical-threshold must be 0-100"
    ELSE IF args.warning_threshold > args.critical_threshold
        THEN "--warning-threshold cannot be greater than --critical-threshold"
    ELSE IF args.json /\ args.raw_json
        THEN "Cannot use both --json and --raw-json"
    ELSE ""

\* parse_arguments(): parser.error prints the message and exits with
\* status 2 (SystemExit is no Exception: the boundary lets it pass)
ParseArguments ==
    /\ pc = "start"
    /\ IF ArgumentError(argv) # ""
       THEN /\ stderr' = Append(stderr, ArgumentError(argv))
            /\ exitCode' = 2
            /\ pc' = "exited"
       ELSE /\ pc' = "main"
            /\ UNCHANGED <<stderr, exitCode>>
    /\ UNCHANGED <<argv, WARNING_THRESHOLD, CRITICAL_THRESHOLD, partitions, idx,
                   rows, main_rows, has_warning, has_critical, output, log, exc,
                   enumCalls, queries>>

\* main(), from setup_logging to logger.info("Starting DiskUsageMonitor")
MainConfigure ==
    /\ pc = "main"
    /\ WARNING_THRESHOLD' = argv.warning_threshold
    /\ CRITICAL_THRESHOLD' = argv.critical_threshold
    /\ log' = Append(log, LogRecord("INFO", "Starting DiskUsageMonitor", <<>>))
    /\ pc' = "collect"
    /\ UNCHANGED <<argv, partitions, idx, rows, main_rows, has_warning,
                   has_critical, output, stderr, exc, exitCode, enumCalls, queries>>

\* the log after the logger.debug of collect_storage_info
DebugLogged ==
    IF argv.verbose
    THEN Append(log, LogRecord("DEBUG", "Collecting storage info", <<>>))
    ELSE log

\* collect_storage_info, up to the for loop: psutil.disk_partitions returns
\* a list, or raises and the exception leaves collect_storage_info and main
CollectStart ==
    /\ pc = "collect"
    /\ log' = DebugLogged
    /\ enumCalls' = enumCalls + 1
    /\ \/ \E ps \in MountLists :
            /\ partitions' = ps
            /\ idx' = 1
            /\ rows' = <<>>
            /\ pc' = "loop"
            /\ exc' = exc
       \/ /\ exc' = "Exception"
          /\ pc' = "raised"
          /\ UNCHANGED <<partitions, idx, rows>>
    /\ UNCHANGED <<argv, WARNING_THRESHOLD, CRITICAL_THRESHOLD, main_rows,
                   has_warning, has_critical, output, stderr, exitCode, queries>>

\* IsPseudo without the test of the device path
IsPseudo_fstype_only(part) == part.fstype \in PSEUDO_FS_TYPES

\* the test of the second continue of the loop
IsPseudo(part) ==
    part.fstype \in PSEUDO_FS_TYPES \/ StartsWith(part.device, DevLoopPrefix)

\* the tuple the try block appends to rows
MakeRow(part, usage) ==
    [device |-> part.device,
     mountpoint |-> part.mountpoint,
     total |-> bytes_to_human_default(usage.total),
     used |-> bytes_to_human_default(usage.used),
     free |-> bytes_to_human_default(usage.free),
     percent |-> usage.percent,
     fs_type |-> IF part.fstype = "" THEN "unknown" ELSE part.fstype]

\* CaughtClasses of a bare except clause, which catches every exception
CaughtClasses_bare_except ==
    {"PermissionError", "OSError", "ValueError", "TypeError", "KeyboardInterrupt"}

\* the exception classes the except clauses of the loop catch
CaughtClasses == {"PermissionError", "OSError", "ValueError"}

\* ExceptLog without the except PermissionError clause: PermissionError is
\* an OSError and the second clause logs it
ExceptLog_one_clause(kind, mountpoint) ==
    LogRecord("ERROR", "Error accessing", mountpoint)

\* the record an except clause of the loop logs
ExceptLog(kind, mountpoint) ==
    IF kind = "PermissionError"
    THEN LogRecord("WARNING", "Permission denied for mountpoint", mountpoint)
    ELSE LogRecord("ERROR", "Error accessing", mountpoint)

\* Skipped without the test of the mountpoint
Skipped_mountpoint_untested(part) == argv.physical /\ IsPseudo(part)

\* the tests of the two continue statements at the head of the loop body
Skipped(part) ==
    part.mountpoint = <<>> \/ (argv.physical /\ IsPseudo(part))

\* one iteration of the for loop of collect_storage_info, up to the end of
\* the try block: the mount is skipped, or queried; the query gives a row,
\* or raises an exception that an except clause catches (the clause runs
\* next), or one that leaves collect_storage_info and main
CollectStep ==
    /\ pc = "loop"
    /\ idx <= Len(partitions)
    /\ LET part == partitions[idx] IN
       IF Skipped(part)
       THEN /\ idx' = idx + 1
            /\ UNCHANGED <<rows, queries, exc, pc>>
       ELSE \E usage \in TryOutcomes :
            /\ queries' = Append(queries, [index |-> idx, usage |-> usage])
            /\ IF usage.kind = "ok"
               THEN /\ rows' = Append(rows, MakeRow(part, usage))
                    /\ idx' = idx + 1
                    /\ UNCHANGED <<exc, pc>>
               ELSE IF usage.kind \in CaughtClasses
               THEN /\ pc' = "except"
                    /\ UNCHANGED <<rows, exc, idx>>
               ELSE /\ exc' = usage.kind
                    /\ pc' = "raised"
                    /\ UNCHANGED <<rows, idx>>
    /\ UNCHANGED <<argv, WARNING_THRESHOLD, CRITICAL_THRESHOLD, partitions,
                   main_rows, has_warning, has_critical, output, stderr, log,
                   exitCode, enumCalls>>

\* CollectExcept with the mount tried again after an error
CollectExcept_retry ==
    /\ pc = "except"
    /\ log' = Append(log, ExceptLog(queries[Len(queries)].usage.kind,
                                    partitions[idx].mountpoint))
    /\ idx' = IF queries[Len(queries)].usage.kind = "OSError" THEN idx ELSE idx + 1
    /\ pc' = "loop"
    /\ UNCHANGED <<argv, WARNING_THRESHOLD, CRITICAL_THRESHOLD, partitions, rows,
                   main_rows, has_warning, has_critical, output, stderr, exc,
                   exitCode, enumCalls, queries>>

\* the except clause that caught the exception of the try block: the
\* record is logged and continue goes on to the next mount
CollectExcept ==
    /\ pc = "except"
    /\ log' = Append(log, ExceptLog(queries[Len(queries)].usage.kind,
                                    partitions[idx].mountpoint))
    /\ idx' = idx + 1
    /\ pc' = "loop"
    /\ UNCHANGED <<argv, WARNING_THRESHOLD, CRITICAL_THRESHOLD, partitions, rows,
                   main_rows, has_warning, has_critical, output, stderr, exc,
                   exitCode, enumCalls, queries>>

\* the end of the loop and the return of collect_storage_info to main
CollectReturn ==
    /\ pc = "loop"
    /\ idx > Len(partitions)
    /\ main_rows' = SortRows(rows, argv.sort)
    /\ pc' = "check"
    /\ UNCHANGED <<argv, WARNING_THRESHOLD, CRITICAL_THRESHOLD, partitions, idx,
                   rows, has_warning, has_critical, output, stderr, log, exc,
                   exitCode, enumCalls, queries>>

\* main: has_warning, has_critical = check_thresholds(rows)
MainCheck ==
    /\ pc = "check"
    /\ has_warning' = check_thresholds(main_rows)[1]
    /\ has_critical' = check_thresholds(main_rows)[2]
    /\ pc' = "present"
    /\ UNCHANGED <<argv, WARNING_THRESHOLD, CRITICAL_THRESHOLD, partitions, idx,
                   rows, main_rows, output, stderr, log, exc, exitCode,
                   enumCalls, queries>>

\* main: the output, the timestamp and logger.info("DiskUsageMonitor completed")
MainPresent ==
    /\ pc = "present"
    /\ output' =
         [format |-> IF argv.raw_json THEN "raw_json"
                     ELSE IF argv.json THEN "json" ELSE "table",
          rows |-> IF argv.raw_json \/ argv.json THEN JsonRows(main_rows)
                   ELSE TableRows(main_rows),
          timestamp |-> ~argv.no_timestamp]
    /\ log' = Append(log, LogRecord("INFO", "DiskUsageMonitor completed", <<>>))
    /\ pc' = "exit"
    /\ UNCHANGED <<argv, WARNING_THRESHOLD, CRITICAL_THRESHOLD, partitions, idx,
                   rows, main_rows, has_warning, has_critical, stderr, exc,
                   exitCode, enumCalls, queries>>

\* ExitStatus with the two tests in the other order
ExitStatus_warning_first(warning, critical) ==
    IF warning THEN 1 ELSE IF critical THEN 2 ELSE 0

\* the status main passes to sys.exit
ExitStatus(warning, critical) ==
    IF critical THEN 2 ELSE IF warning THEN 1 ELSE 0

\* main: the sys.exit calls
MainExit ==
    /\ pc = "exit"
    /\ exitCode' = ExitStatus(has_warning, has_critical)
    /\ pc' = "exited"
    /\ UNCHANGED <<argv, WARNING_THRESHOLD, CRITICAL_THRESHOLD, partitions, idx,
                   rows, main_rows, has_warning, has_critical, output, stderr,
                   log, exc, enumCalls, queries>>

\* the positions of main() at which KeyboardInterrupt can be raised
Running == {"start", "main", "collect", "loop", "except", "check", "present", "exit"}

\* KeyboardInterrupt raised between two steps of main(), an except clause
\* of the loop included: no clause of the loop catches it there and it
\* leaves main
Interrupt ==
    /\ pc \in Running
    /\ exc' = "KeyboardInterrupt"
    /\ pc' = "raised"
    /\ UNCHANGED <<argv, WARNING_THRESHOLD, CRITICAL_THRESHOLD, partitions, idx,
                   rows, main_rows, has_warning, has_critical, output, stderr,
                   log, exitCode, enumCalls, queries>>

\* the boundary: except KeyboardInterrupt
HandleInterrupt ==
    /\ pc = "raised"
    /\ exc = "KeyboardInterrupt"
    /\ stderr' = Append(stderr, "Operation cancelled by user")
    /\ exitCode' = 1
    /\ pc' = "exited"
    /\ UNCHANGED <<argv, WARNING_THRESHOLD, CRITICAL_THRESHOLD, partitions, idx,
                   rows, main_rows, has_warning, has_critical, output, log, exc,
                   enumCalls, queries>>

\* HandleException with the status of the except KeyboardInterrupt clause
HandleException_status_1 ==
    /\ pc = "raised"
    /\ exc # "KeyboardInterrupt"
    /\ log' = Append(log, LogRecord("CRITICAL", "Unexpected error", <<>>))
    /\ exitCode' = 1
    /\ pc' = "exited"
    /\ UNCHANGED <<argv, WARNING_THRESHOLD, CRITICAL_THRESHOLD, partitions, idx,
                   rows, main_rows, has_warning, has_critical, output, stderr,
                   exc, enumCalls, queries>>

\* the boundary: except Exception, which KeyboardInterrupt is not
HandleException ==
    /\ pc = "raised"
    /\ exc # "KeyboardInterrupt"
    /\ log' = Append(log, LogRecord("CRITICAL", "Unexpected error", <<>>))
    /\ exitCode' = 3
    /\ pc' = "exited"
    /\ UNCHANGED <<argv, WARNING_THRESHOLD, CRITICAL_THRESHOLD, partitions, idx,
                   rows, main_rows, has_warning, has_critical, output, stderr,
                   exc, enumCalls, queries>>

Next ==
    \/ ParseArguments
    \/ MainConfigure
    \/ CollectStart
    \/ CollectStep
    \/ CollectExcept
    \/ CollectReturn
    \/ MainCheck
    \/ MainPresent
    \/ MainExit
    \/ Interrupt
    \/ HandleInterrupt
    \/ HandleException

\* runs with the threshold options and the output flags
Init == Start(ThresholdArgs \cup FlagArgs)

Spec == Init /\ [][Next]_vars

\* runs with each --sort key
InitSort == Start(SortArgs)

SpecSort == InitSort /\ [][Next]_vars

\* runs with each --unit
InitUnit == Start(UnitArgs)

SpecUnit == InitUnit /\ [][Next]_vars

\* runs with each combination of --all, --physical and --sort
InitFilter == Start(FilterArgs)

SpecFilter == InitFilter /\ [][Next]_vars

-----------------------------------------------------------------------------
(* The classification alone: generate_json_output and print_storage_table
   applied to two rows of any percent, under any pair of thresholds that
   parse_arguments lets pass *)

\* a row with percent p (in tenths)
ClassifyRow(p) ==
    MakeRow([device |-> DevSda, mountpoint |-> MntRoot, fstype |-> "ext4"],
            Usage(1048576, 0, 1048576, p))

\* the percents tried with the thresholds (w, c): below 0, below and on
\* each threshold, above 100
ClassifyPercents(w, c) ==
    {-10, 10 * w - 5, 10 * w, 10 * c - 5, 10 * c, 1005, 2000}

InitClassify ==
    /\ \E w \in 0..100 : \E c \in w..100 :
          /\ argv = [DefaultArgs EXCEPT !.warning_threshold = w,
                                        !.critical_threshold = c]
          /\ WARNING_THRESHOLD = w
          /\ CRITICAL_THRESHOLD = c
          /\ \E p1, p2 \in ClassifyPercents(w, c) :
                /\ p1 <= p2
                /\ main_rows = <<ClassifyRow(p1), ClassifyRow(p2)>>
    /\ pc = "classify"
    /\ partitions = <<>>
    /\ idx = 0
    /\ rows = <<>>
    /\ has_warning = FALSE
    /\ has_critical = FALSE
    /\ output = NoOutput
    /\ stderr = <<>>
    /\ log = <<>>
    /\ exc = "none"
    /\ exitCode = NoExit
    /\ enumCalls = 0
    /\ queries = <<>>

\* generate_json_output(rows)
ClassifyJson ==
    /\ pc = "classify"
    /\ output' = [format |-> "json", rows |-> JsonRows(main_rows),
                  timestamp |-> FALSE]
    /\ pc' = "classified"
    /\ UNCHANGED <<argv, WARNING_THRESHOLD, CRITICAL_THRESHOLD, partitions, idx,
                   rows, main_rows, has_warning, has_critical, stderr, log,
                   exc, exitCode, enumCalls, queries>>

\* print_storage_table(rows)
ClassifyTable ==
    /\ pc = "classify"
    /\ output' = [format |-> "table", rows |-> TableRows(main_rows),
                  timestamp |-> FALSE]
    /\ pc' = "classified"
    /\ UNCHANGED <<argv, WARNING_THRESHOLD, CRITICAL_THRESHOLD, partitions, idx,
                   rows, main_rows, has_warning, has_critical, stderr, log,
                   exc, exitCode, enumCalls, queries>>

NextClassify ==
    \/ ClassifyJson
    \/ ClassifyTable

SpecClassify == InitClassify /\ [][NextClassify]_vars

-----------------------------------------------------------------------------
(* Properties *)

\* collect_storage_info has returned to main and main has not exited
Returned == pc \in {"check", "present", "exit"}

\* the process has exited through the sys.exit calls at the end of main
NormalExit == pc = "exited" /\ stderr = <<>> /\ exc = "none"

\* the calls of disk_usage that gave a usage with a numeric percent
OkQueries == SelectSeq(queries, LAMBDA q : q.usage.kind = "ok")

\* the except clause that caught the exception of call q has run to its
\* end; until then it is running, or KeyboardInterrupt has ended it
ClauseDone(q) == q.index < idx

\* call q is the last one and its except clause is running or was ended
\* by KeyboardInterrupt
ClauseOpen(q) ==
    /\ q = queries[Len(queries)]
    /\ q.index = idx
    /\ pc = "except" \/ exc = "KeyboardInterrupt"

\* the calls of disk_usage that raised PermissionError
DeniedQueries == SelectSeq(queries, LAMBDA q : q.usage.kind = "PermissionError")

\* the percent of row i of the output
OutPercent(i) ==
    IF output.format = "table" THEN output.rows[i].percent
    ELSE output.rows[i].usage_percent

\* the tier of row i of the output: the status of a JSON row, the tier
\* whose colour a table row has
OutTier(i) ==
    IF output.format = "table"
    THEN CASE output.rows[i].color = "bold red" -> "CRITICAL"
           [] output.rows[i].color = "yellow" -> "WARNING"
           [] output.rows[i].color = "white" -> "OK"
    ELSE output.rows[i].status

\* C1: with the thresholds (w, c) of the command line, every row of the
\* output with percent p has the tier CRITICAL when p >= c, WARNING when
\* w <= p < c and OK when p < w, so that a percent equal to a threshold
\* gets the higher tier.
C1_StatusByThreshold ==
    LET w == 10 * argv.warning_threshold
        c == 10 * argv.critical_threshold
    IN  \A i \in 1..Len(output.rows) :
            /\ OutPercent(i) >= c => OutTier(i) = "CRITICAL"
            /\ (w <= OutPercent(i) /\ OutPercent(i) < c) => OutTier(i) = "WARNING"
            /\ OutPercent(i) < w => OutTier(i) = "OK"

\* C1 witness: a JSON output with a row exactly at the warning threshold,
\* which is WARNING, and a row exactly at the critical threshold, which is
\* CRITICAL.
C1_Witness ==
    /\ output.format = "json"
    /\ argv.warning_threshold < argv.critical_threshold
    /\ \E i, j \in 1..Len(output.rows) :
          /\ output.rows[i].usage_percent = 10 * argv.warning_threshold
          /\ output.rows[i].status = "WARNING"
          /\ output.rows[j].usage_percent = 10 * argv.critical_threshold
          /\ output.rows[j].status = "CRITICAL"

\* C2: a run that ends through the sys.exit calls of main has printed its
\* rows and exits with 2 when a row of the output is at or above the
\* critical threshold, with 1 when none is and a row is at or above the
\* warning threshold, and with 0 otherwise, also without rows.
C2_ExitCode ==
    NormalExit =>
        /\ output.format # "none"
        /\ Len(output.rows) = Len(main_rows)
        /\ exitCode =
             IF \E i \in 1..Len(output.rows) :
                    OutPercent(i) >= 10 * argv.critical_threshold
             THEN 2
             ELSE IF \E i \in 1..Len(output.rows) :
                         OutPercent(i) >= 10 * argv.warning_threshold
             THEN 1
             ELSE 0

\* C2 witness: a run that exits with 2 with a row that is only a warning
\* and a row that is critical.
C2_Witness ==
    /\ NormalExit
    /\ exitCode = 2
    /\ \E i, j \in 1..Len(output.rows) :
          /\ OutPercent(i) >= 10 * argv.warning_threshold
          /\ OutPercent(i) < 10 * argv.critical_threshold
          /\ OutPercent(j) >= 10 * argv.critical_threshold

\* C3 (the claim as stated): every usage query that fails otherwise than by
\* permission-denied, or whose percent is no number, adds no row, is caught
\* by an except clause that logs it once at the error level and goes on to
\* the next mount, and never is the exception in flight out of the
\* collector.
C3_NoPerMountFailureEscapes ==
    LET failed == SelectSeq(queries,
                     LAMBDA q : q.usage.kind \notin
                                  {"ok", "PermissionError", "KeyboardInterrupt"})
        done == SelectSeq(failed, ClauseDone)
        errors == SelectSeq(log, LAMBDA l : l.level = "ERROR")
    IN  /\ Len(errors) = Len(done)
        /\ Len(rows) = Len(OkQueries)
        /\ \A k \in 1..Len(done) :
              errors[k].about = partitions[done[k].index].mountpoint
        /\ \A k \in 1..Len(failed) :
              /\ ClauseDone(failed[k]) \/ ClauseOpen(failed[k])
              /\ exc # failed[k].usage.kind

\* C4: a usage query that raises PermissionError adds no row and is caught
\* by the except clause, which logs one record at the warning level for its
\* mountpoint and goes on to the next mount; PermissionError is never in
\* flight out of the collector; every mount whose query succeeded
\* has its row in rows, and in what the collector returns.
C4_PermissionDeniedSkipped ==
    LET warnings == SelectSeq(log, LAMBDA l : l.level = "WARNING")
        done == SelectSeq(DeniedQueries, ClauseDone)
    IN  /\ Len(warnings) = Len(done)
        /\ \A k \in 1..Len(done) :
              warnings[k].about = partitions[done[k].index].mountpoint
        /\ \A k \in 1..Len(DeniedQueries) :
              ClauseDone(DeniedQueries[k]) \/ ClauseOpen(DeniedQueries[k])
        /\ exc # "PermissionError"
        /\ Len(rows) = Len(OkQueries)
        /\ \A k \in 1..Len(OkQueries) :
              /\ rows[k].mountpoint = partitions[OkQueries[k].index].mountpoint
              /\ rows[k].device = partitions[OkQueries[k].index].device
              /\ rows[k].percent = OkQueries[k].usage.percent
              /\ Returned => \E i \in 1..Len(main_rows) : main_rows[i] = rows[k]

\* C4 witness: the collector has returned a row of a mount listed after a
\* mount whose query raised PermissionError.
C4_Witness ==
    /\ Returned
    /\ Len(DeniedQueries) = 1
    /\ Len(SelectSeq(log, LAMBDA l : l.level = "WARNING")) = 1
    /\ Len(main_rows) = 1
    /\ DeniedQueries[1].index < OkQueries[1].index

\* C5 (the claim as stated): the total, used and free of every row are the
\* raw counts divided by the divisor of the unit given with --unit and
\* rounded to one decimal place.
C5_UnitSelectsDivisor ==
    \A k \in 1..Len(rows) :
        /\ rows[k].total = bytes_to_human(OkQueries[k].usage.total, argv.unit)
        /\ rows[k].used = bytes_to_human(OkQueries[k].usage.used, argv.unit)
        /\ rows[k].free = bytes_to_human(OkQueries[k].usage.free, argv.unit)

\* C6: a command line with a threshold outside 0..100, with the warning
\* threshold above the critical one, or with both --json and --raw-json
\* ends, once parsed, with a non-zero status, without a call of the
\* enumerator or of the usage query and without output; and wherever
\* collection or classification runs, 0 <= warning <= critical <= 100.
C6_ConfigRejectedFirst ==
    LET w == argv.warning_threshold
        c == argv.critical_threshold
        bad == \/ w < 0 \/ w > 100 \/ c < 0 \/ c > 100
               \/ w > c
               \/ (argv.json /\ argv.raw_json)
    IN  /\ (bad /\ pc # "start") =>
              /\ pc \in {"raised", "exited"}
              /\ pc = "raised" => exc = "KeyboardInterrupt"
              /\ pc = "exited" => exitCode # 0
              /\ enumCalls = 0
              /\ queries = <<>>
              /\ output = NoOutput
        /\ pc \in {"collect", "loop", "except", "check", "present", "exit"} =>
              /\ 0 <= WARNING_THRESHOLD
              /\ WARNING_THRESHOLD <= CRITICAL_THRESHOLD
              /\ CRITICAL_THRESHOLD <= 100
              /\ WARNING_THRESHOLD = w
              /\ CRITICAL_THRESHOLD = c

\* C6 witness: the run with a warning threshold above the critical one has
\* exited with status 2 before any collection.
C6_Witness ==
    /\ pc = "exited"
    /\ argv.warning_threshold > argv.critical_threshold
    /\ argv.critical_threshold >= 0
    /\ exitCode = 2
    /\ enumCalls = 0
    /\ stderr # <<>>

\* C7: what collect_storage_info returns is in ascending order of the
\* mountpoint for --sort mount and in descending order of the field for
\* total, used, free and percent.
C7_SortedByKey ==
    \A i, j \in 1..Len(main_rows) :
        i < j =>
            IF argv.sort = "mount"
            THEN ~StrLess(main_rows[j].mountpoint, main_rows[i].mountpoint)
            ELSE SortField(main_rows[i], argv.sort)
                    >= SortField(main_rows[j], argv.sort)

\* C7 witness: a descending sort by used that has turned two rows around.
C7_Witness ==
    /\ Returned
    /\ argv.sort = "used"
    /\ Len(rows) = 2
    /\ rows[1].used < rows[2].used
    /\ main_rows = <<rows[2], rows[1]>>

\* C8: for every sort key, the rows of one key value are returned in the
\* order in which the loop, which follows the enumerator, collected them.
C8_SortStable ==
    Returned =>
        \A r \in {rows[i] : i \in 1..Len(rows)}
                 \cup {main_rows[i] : i \in 1..Len(main_rows)} :
            SelectSeq(main_rows,
                      LAMBDA x : SortField(x, argv.sort) = SortField(r, argv.sort))
            = SelectSeq(rows,
                      LAMBDA x : SortField(x, argv.sort) = SortField(r, argv.sort))

\* C8 witness: a descending sort by total of two different rows whose
\* totals are equal after rounding, returned in the order of collection.
C8_Witness ==
    /\ Returned
    /\ argv.sort = "total"
    /\ Len(rows) = 2
    /\ rows[1].total = rows[2].total
    /\ rows[1] # rows[2]
    /\ OkQueries[1].usage.total # OkQueries[2].usage.total
    /\ main_rows = rows

\* the set of pseudo filesystem types C9 names
C9_PseudoTypes ==
    {"proc", "sysfs", "tmpfs", "devtmpfs", "devpts", "cgroup", "cgroup2",
     "pstore", "bpf", "securityfs", "mqueue", "hugetlbfs", "tracefs"}

\* C9: with --physical no row, collected, returned or printed, has a
\* filesystem type of the pseudo set or a device path that begins with
\* /dev/loop; without it a listed mount of that kind with a mountpoint is
\* queried, and when its query succeeded its row is in what is returned.
C9_PhysicalFilter ==
    /\ argv.physical =>
          /\ \A r \in {rows[i] : i \in 1..Len(rows)}
                       \cup {main_rows[i] : i \in 1..Len(main_rows)} :
                /\ r.fs_type \notin C9_PseudoTypes
                /\ ~StartsWith(r.device, DevLoopPrefix)
          /\ \A i \in 1..Len(output.rows) :
                ~StartsWith(output.rows[i].device, DevLoopPrefix)
    /\ ~argv.physical =>
          \A n \in 1..Len(partitions) :
              ( /\ \/ partitions[n].fstype \in C9_PseudoTypes
                   \/ StartsWith(partitions[n].device, DevLoopPrefix)
                /\ partitions[n].mountpoint # <<>>
                /\ n < idx ) =>
                  \E k \in 1..Len(queries) :
                      /\ queries[k].index = n
                      /\ (queries[k].usage.kind = "ok" /\ Returned) =>
                            \E i \in 1..Len(main_rows) :
                                /\ main_rows[i].device = partitions[n].device
                                /\ main_rows[i].mountpoint = partitions[n].mountpoint
                                /\ main_rows[i].fs_type = partitions[n].fstype

\* C9 witness: with --physical, a list with a loop device and a disk has
\* given the one row of the disk.
C9_Witness ==
    /\ argv.physical
    /\ Returned
    /\ \E n \in 1..Len(partitions) : StartsWith(partitions[n].device, DevLoopPrefix)
    /\ Len(main_rows) = 1
    /\ Len(queries) = 1

\* C10: a run in which disk_partitions raised, or another exception that
\* is no KeyboardInterrupt left main, exits with 3 after a record at the
\* critical level; a run exits with 3 only so, and with 0, 1 or 2 never so.
C10_UnexpectedErrorExit ==
    /\ pc = "raised" => exc # "none"
    /\ (pc = "exited" /\ exc \notin {"none", "KeyboardInterrupt"}) =>
          /\ exitCode = 3
          /\ log # <<>>
          /\ log[Len(log)].level = "CRITICAL"
    /\ (pc = "exited" /\ exitCode = 3) => exc \notin {"none", "KeyboardInterrupt"}
    /\ (pc = "exited" /\ exc = "none") => exitCode \in {0, 1, 2}

\* C10 witness: disk_partitions raised and the run has exited with 3.
C10_Witness ==
    /\ pc = "exited"
    /\ exc = "Exception"
    /\ enumCalls = 1
    /\ partitions = <<>>
    /\ exitCode = 3

\* C11 (state part): KeyboardInterrupt in flight is on its way to the
\* boundary or has ended the run there, with status 1, the message on
\* stderr and no record at the critical level; one raised in a try block
\* of the loop is caught by no except clause: its call is the last one and
\* the loop has not gone on.
C11_Interrupted ==
    /\ exc = "KeyboardInterrupt" => pc \in {"raised", "exited"}
    /\ (pc = "exited" /\ exc = "KeyboardInterrupt") =>
          /\ exitCode = 1
          /\ stderr = <<"Operation cancelled by user">>
          /\ \A i \in 1..Len(log) : log[i].level # "CRITICAL"
    /\ \A k \in 1..Len(queries) :
          queries[k].usage.kind = "KeyboardInterrupt" =>
              /\ k = Len(queries)
              /\ exc = "KeyboardInterrupt"
              /\ idx = queries[k].index

\* C11: a KeyboardInterrupt raised during collection or presentation, an
\* except clause of the loop included, ends the run with status 1: after
\* it the only step is the exit with 1, and no mount is queried, no row
\* added, sorted or printed, no threshold evaluated.
C11_InterruptAborts ==
    /\ []C11_Interrupted
    /\ [][exc = "KeyboardInterrupt" =>
            /\ pc' = "exited"
            /\ exitCode' = 1
            /\ UNCHANGED <<exc, partitions, idx, rows, main_rows, has_warning,
                           has_critical, output, log, enumCalls, queries>>]_vars

\* C11 witness: the run has exited with 1 on a KeyboardInterrupt raised in
\* the except clause that had caught an OSError, before its record was
\* logged, with a row collected before.
C11_Witness ==
    /\ pc = "exited"
    /\ exc = "KeyboardInterrupt"
    /\ exitCode = 1
    /\ Len(rows) = 1
    /\ Len(queries) = 2
    /\ queries[2].usage.kind = "OSError"
    /\ queries[2].index = idx
    /\ \A i \in 1..Len(log) : log[i].level # "ERROR"

\* the place of a tier in the order OK < WARNING < CRITICAL
TierRank(tier) ==
    CASE tier = "OK" -> 0
      [] tier = "WARNING" -> 1
      [] tier = "CRITICAL" -> 2

\* C12: under thresholds w <= c in 0..100, every row, whatever its percent,
\* below 0 and above 100 included, has one of the tiers OK, WARNING,
\* CRITICAL, and of two rows the one with the larger percent has no lower
\* tier.
C12_TierTotalMonotonic ==
    /\ \A i \in 1..Len(output.rows) : OutTier(i) \in {"OK", "WARNING", "CRITICAL"}
    /\ \A i, j \in 1..Len(output.rows) :
          OutPercent(i) <= OutPercent(j) =>
              TierRank(OutTier(i)) <= TierRank(OutTier(j))

\* C12 witness: a JSON output with a row below 0, which is OK, and a row
\* above 100, which is CRITICAL, under thresholds inside 0..100.
C12_Witness ==
    /\ output.format = "json"
    /\ 0 < WARNING_THRESHOLD
    /\ WARNING_THRESHOLD < CRITICAL_THRESHOLD
    /\ CRITICAL_THRESHOLD < 100
    /\ Len(output.rows) = 2
    /\ output.rows[1].usage_percent < 0
    /\ output.rows[1].status = "OK"
    /\ output.rows[2].usage_percent > 1000
    /\ output.rows[2].status = "CRITICAL"

\* the mountpoint of row i of the output
OutMountpoint(i) ==
    IF output.format = "table" THEN output.rows[i].mount
    ELSE output.rows[i].mountpoint

\* C13: whatever --all, --physical and --sort are, a listed entry whose
\* mountpoint is the empty string is never queried, has no row collected,
\* returned or printed, and no record at the warning or error level.
C13_EmptyMountpointSkipped ==
    /\ \A k \in 1..Len(queries) :
          partitions[queries[k].index].mountpoint # <<>>
    /\ \A i \in 1..Len(rows) : rows[i].mountpoint # <<>>
    /\ \A i \in 1..Len(main_rows) : main_rows[i].mountpoint # <<>>
    /\ \A i \in 1..Len(output.rows) : OutMountpoint(i) # <<>>
    /\ \A i \in 1..Len(log) :
          log[i].level \in {"WARNING", "ERROR"} => log[i].about # <<>>
    /\ (pc \in {"loop", "except"} /\ exc = "none") =>
          Cardinality({n \in 1..(idx - 1) : partitions[n].mountpoint = <<>>})
              + Len(queries) <= idx

\* C13 witness: with --all, --physical and --sort mount, a list of an entry
\* without mountpoint and a disk has been printed as the one row of the
\* disk, after one query and without a warning or an error.
C13_Witness ==
    /\ pc = "exit"
    /\ argv.all /\ argv.physical /\ argv.sort = "mount"
    /\ Len(partitions) = 2
    /\ partitions[1].mountpoint = <<>>
    /\ Len(queries) = 1
    /\ Len(output.rows) = 1
    /\ \A i \in 1..Len(log) : log[i].level = "INFO"

\* the records of the except clauses of the loop
Diagnostics == SelectSeq(log, LAMBDA r : r.level \in {"WARNING", "ERROR"})

\* the calls of disk_usage for entry n of the listing
QueriesOf(n) == {k \in 1..Len(queries) : queries[k].index = n}

\* every call of disk_usage so far has given a row or a record of an
\* except clause
AllResolved == Len(rows) + Len(Diagnostics) = Len(queries)

\* C14 (states): disk_partitions is called at most once, and once when the
\* loop runs; the calls of disk_usage are for entries in the order of the
\* listing, none twice; an entry the loop has passed had one call when it
\* passes the two filters and none when it does not; every call but one in
\* flight has given its row or its record.
C14_OnePass ==
    /\ enumCalls <= 1
    /\ pc \in {"loop", "except", "check", "present", "exit"} => enumCalls = 1
    /\ \A k \in 1..(Len(queries) - 1) : queries[k].index < queries[k + 1].index
    /\ \A k \in 1..Len(queries) :
          /\ queries[k].index \in 1..Len(partitions)
          /\ queries[k].index <= idx
          /\ ~Skipped(partitions[queries[k].index])
    /\ \A n \in 1..Len(partitions) :
          n < idx =>
             Cardinality(QueriesOf(n)) = IF Skipped(partitions[n]) THEN 0 ELSE 1
    /\ Len(rows) = Len(OkQueries)
    /\ Len(rows) + Len(Diagnostics) \in {Len(queries) - 1, Len(queries)}
    /\ pc \in {"loop", "check", "present", "exit"} => AllResolved

\* C14: one sequential pass: C14_OnePass in every state, and a call of
\* disk_usage is made only by the loop, for the entry at its position, when
\* every earlier call has given its row or its record.
C14_SequentialPass ==
    /\ []C14_OnePass
    /\ [][queries' # queries =>
            /\ pc = "loop"
            /\ AllResolved
            /\ Len(queries') = Len(queries) + 1
            /\ SubSeq(queries', 1, Len(queries)) = queries
            /\ queries'[Len(queries')].index = idx
            /\ enumCalls' = enumCalls]_vars

\* C14 witness: with --physical, a listing of a disk and a pseudo
\* filesystem has returned after one call of disk_partitions and one call
\* of disk_usage, which raised OSError and was not repeated.
C14_Witness ==
    /\ Returned
    /\ argv.physical
    /\ enumCalls = 1
    /\ Len(partitions) = 2
    /\ ~Skipped(partitions[1])
    /\ Skipped(partitions[2]) /\ partitions[2].mountpoint # <<>>
    /\ Len(queries) = 1
    /\ queries[1].usage.kind = "OSError"
    /\ Len(Diagnostics) = 1
    /\ rows = <<>>

\* the entries of the listing that pass the two filters of the loop
Passing == {n \in 1..Len(partitions) : ~Skipped(partitions[n])}

\* the entries that passed the filters and whose call of disk_usage and
\* conversion of the percent succeeded
Succeeded == {n \in Passing : \E k \in QueriesOf(n) : queries[k].usage.kind = "ok"}

\* the row of entry n of Succeeded
RowOf(n) == MakeRow(partitions[n], queries[CHOOSE k \in QueriesOf(n) : TRUE].usage)

\* C15: when collect_storage_info has returned, its rows are the rows of
\* the entries that passed the filters and were queried with success, each
\* entry once and in some order, which the printed rows keep; the rows and
\* the warning and error records together are as many as the entries that
\* passed the filters.
C15_RowsArePermutation ==
    Returned =>
       /\ Len(main_rows) = Cardinality(Succeeded)
       /\ \E f \in [1..Len(main_rows) -> Succeeded] :
             /\ \A i, j \in 1..Len(main_rows) : f[i] = f[j] => i = j
             /\ \A i \in 1..Len(main_rows) : main_rows[i] = RowOf(f[i])
       /\ Len(main_rows) + Len(Diagnostics) = Cardinality(Passing)
       /\ pc = "exit" =>
             /\ Len(output.rows) = Len(main_rows)
             /\ \A i \in 1..Len(output.rows) :
                   /\ OutMountpoint(i) = main_rows[i].mountpoint
                   /\ OutPercent(i) = main_rows[i].percent

\* C15 witness: sorted by total, two disks of different totals have been
\* returned and printed as two rows in the other order than collected,
\* without a record of an except clause.
C15_Witness ==
    /\ pc = "exit"
    /\ argv.sort = "total"
    /\ Len(rows) = 2
    /\ rows[1].total # rows[2].total
    /\ main_rows = <<rows[2], rows[1]>>
    /\ Len(output.rows) = 2
    /\ Diagnostics = <<>>

\* the tiers of the rows of the output
OutTiers == {OutTier(i) : i \in 1..Len(output.rows)}

\* C16 (states): Config holds the thresholds of its definition until main
\* writes those of the command line, and these from then on, through the
\* collection to the exit; a run that exits at the end of main exits with 2
\* exactly when a row of its output is CRITICAL, with 1 exactly when a row
\* is WARNING and none CRITICAL, and with 0 exactly when every row is OK.
C16_OnePair ==
    /\ pc \in {"start", "main"} =>
          /\ WARNING_THRESHOLD = DEFAULT_WARNING_THRESHOLD
          /\ CRITICAL_THRESHOLD = DEFAULT_CRITICAL_THRESHOLD
          /\ enumCalls = 0
    /\ (pc \in {"collect", "loop", "except", "check", "present", "exit"}
           \/ enumCalls > 0 \/ output.format # "none") =>
          /\ WARNING_THRESHOLD = argv.warning_threshold
          /\ CRITICAL_THRESHOLD = argv.critical_threshold
    /\ NormalExit =>
          /\ output.format # "none"
          /\ exitCode = 2 <=> "CRITICAL" \in OutTiers
          /\ exitCode = 1 <=> ("WARNING" \in OutTiers /\ "CRITICAL" \notin OutTiers)
          /\ exitCode = 0 <=> OutTiers \subseteq {"OK"}

\* C16: C16_OnePair in every state, and the only step that changes a
\* threshold of Config is the one of main that writes the two of the
\* command line, before disk_partitions is called.
C16_ThresholdsWrittenOnce ==
    /\ []C16_OnePair
    /\ [][<<WARNING_THRESHOLD, CRITICAL_THRESHOLD>>'
             # <<WARNING_THRESHOLD, CRITICAL_THRESHOLD>> =>
            /\ pc = "main"
            /\ pc' = "collect"
            /\ enumCalls = 0
            /\ queries = <<>>
            /\ WARNING_THRESHOLD' = argv.warning_threshold
            /\ CRITICAL_THRESHOLD' = argv.critical_threshold]_vars

\* C16 witness: with thresholds 50 and 85 on the command line, a run has
\* exited with 2 with a CRITICAL row whose percent is below the critical
\* threshold Config is defined with, and a WARNING row below the warning
\* threshold Config is defined with.
C16_Witness ==
    /\ NormalExit
    /\ exitCode = 2
    /\ argv.warning_threshold < DEFAULT_WARNING_THRESHOLD
    /\ argv.critical_threshold < DEFAULT_CRITICAL_THRESHOLD
    /\ \E i, j \in 1..Len(output.rows) :
          /\ OutTier(i) = "CRITICAL"
          /\ OutPercent(i) < 10 * DEFAULT_CRITICAL_THRESHOLD
          /\ OutTier(j) = "WARNING"
          /\ OutPercent(j) < 10 * DEFAULT_WARNING_THRESHOLD

====
